---- MODULE Spec2Model ----
(***************************************************************************)
(* A model of the concept-suppression rule engine of                       *)
(* data_steward/cdr_cleaner/cleaning_rules/deid/concept_suppression.py     *)
(* and of the notification module data_steward/utils/slack_alerts.py.      *)
(*                                                                         *)
(* Three specifications share the variables:                               *)
(*   Spec      the life cycle of one rule: __init__, setup_rule,           *)
(*             get_query_specs, against a query engine that may fail;      *)
(*   SpecRun   the generated plan executed, twice, on warehouse content;   *)
(*   SpecSlack post_message against the process environment.               *)
(***************************************************************************)
EXTENDS Integers, Sequences, FiniteSets, Bags, TLC

VARIABLES
    variant,            \* "bq_lookup" | "in_memory": the concrete subclass
    init_tables,        \* the affected_tables argument given to __init__
    phase,              \* "new" | "constructed" | "setup_ok" | "setup_failed"
    affected_tables,    \* self.affected_tables
    engine,             \* what the query engine did with the metadata job
    submitted,          \* number of client.query calls made by setup_rule
    raised,             \* the exception setup_rule let out to its caller
    log,                \* the LOGGER.error records, in order
    lookup_created,     \* number of create_suppression_lookup_table calls
    planned,            \* get_query_specs has returned
    query_specs,        \* the list get_query_specs returned
    suppressed_concept_ids, \* get_suppressed_concept_ids() (in-memory variant)
    table_rows,         \* the dataset: table name -> bag of rows
    lookup_rows,        \* the lookup table of the sandbox dataset: concept ids
    sandbox_rows,       \* the sandbox dataset: sandbox table name -> bag of rows
    run,                \* which execution of the plan is under way (1 or 2)
    exec_pos,           \* number of query specs of the plan executed in this run
    exec_error,         \* error of the engine while executing the plan
    first_run_rows,     \* table_rows as the first execution of the plan left it
    env,                \* os.environ restricted to SLACK_TOKEN, SLACK_CHANNEL
    slack_calls,        \* the Slack web API calls made, in order
    slack_results,      \* outcomes of the calls of the notification module, in order
    pid_source,         \* the pid_source argument given to get_pid_sql_expr
    pid_result          \* what get_pid_sql_expr returned or raised

vars == <<variant, init_tables, phase, affected_tables, engine, submitted,
          raised, log, lookup_created, planned, query_specs,
          suppressed_concept_ids, table_rows, lookup_rows, sandbox_rows,
          run, exec_pos, exec_error, first_run_rows,
          env, slack_calls, slack_results, pid_source, pid_result>>

rule_vars == <<variant, init_tables, phase, affected_tables, engine,
               submitted, raised, log, lookup_created>>
plan_vars == <<planned, query_specs>>
data_vars == <<suppressed_concept_ids, table_rows, lookup_rows, sandbox_rows,
               run, exec_pos, exec_error, first_run_rows>>
slack_vars == <<env, slack_calls, slack_results>>
pid_vars == <<pid_source, pid_result>>

-----------------------------------------------------------------------------
(* Bounds of the model *)

\* longest affected_tables argument given to __init__
MaxTables == 2
\* most rows the dataset holds, over all its tables
MaxRows == 2
\* most calls made to the notification module
MaxCalls == 3
\* longest list of participant ids given to get_pid_sql_expr
MaxPids == 3
\* most dot-separated parts of a string given to get_pid_sql_expr
MaxParts == 4

-----------------------------------------------------------------------------
(* Helpers on sequences *)

Range(s) == {s[i] : i \in 1..Len(s)}

SeqsUpTo(S, n) == UNION {[1..k -> S] : k \in 0..n}

NoDuplicates(s) == \A i, j \in 1..Len(s) : s[i] = s[j] => i = j

\* the orders in which the rows of a result can arrive
Orderings(S) == {s \in [1..Cardinality(S) -> S] : Range(s) = S}

-----------------------------------------------------------------------------
(* resources: the schema of the tables (resources.py is not part of the    *)
(* sources at hand; the two functions are modelled from the data model)    *)

Tables == {"condition_occurrence", "observation", "death", "location"}

get_concept_id_fields(table_name) ==
    CASE table_name = "condition_occurrence" ->
             <<"condition_concept_id", "condition_source_concept_id">>
      [] table_name = "observation" -> <<"observation_concept_id">>
      [] table_name = "death" -> <<"cause_concept_id">>
      [] OTHER -> <<>>

has_domain_table_id(table_name) ==
    table_name \in {"condition_occurrence", "observation", "location"}

\* the tables a concept-suppression rule can work on
ValidTables ==
    {t \in Tables : get_concept_id_fields(t) # <<>> /\ has_domain_table_id(t)}

\* BaseCleaningRule.sandbox_table_for: a deterministic, collision-free name
sandbox_table_for(table_name) ==
    CASE table_name = "condition_occurrence" -> "sbx_condition_occurrence"
      [] table_name = "observation" -> "sbx_observation"
      [] table_name = "death" -> "sbx_death"
      [] table_name = "location" -> "sbx_location"
      [] OTHER -> "sbx_unknown"

DatasetId == "dataset"
SandboxDatasetId == "sandbox_dataset"
LookupTableId == "concept_suppression_lookup"
WRITE_TRUNCATE == "WRITE_TRUNCATE"

\* a column value: Null, or Val(n)
Null == <<>>
Val(n) == <<n>>

\* the concept identifiers of the model; ConceptIdLists are the denylists:
\* empty, one concept, one concept twice, two concepts
ConceptIds == {10, 99}
ConceptIdLists == {<<>>, <<99>>, <<99, 99>>, <<10, 99>>}

-----------------------------------------------------------------------------
(* AbstractConceptSuppression.__init__ *)

FilterAffectedTablesEither(tables) ==
    SelectSeq(tables, LAMBDA t : get_concept_id_fields(t) # <<>>
                                 \/ has_domain_table_id(t))

\* the list comprehension of __init__: keeps, in order, the tables that have
\* concept-id fields and a <table>_id column
RECURSIVE FilterAffectedTables(_)
FilterAffectedTables(tables) ==
    IF tables = <<>> THEN <<>>
    ELSE LET table_name == Head(tables)
             rest == FilterAffectedTables(Tail(tables))
         IN  IF get_concept_id_fields(table_name) # <<>>
                /\ has_domain_table_id(table_name)
             THEN <<table_name>> \o rest
             ELSE rest

Construct ==
    /\ phase = "new"
    /\ phase' = "constructed"
    /\ affected_tables' = FilterAffectedTables(init_tables)
    /\ UNCHANGED <<variant, init_tables, engine, submitted, raised, log,
                   lookup_created>>
    /\ UNCHANGED <<plan_vars, data_vars, slack_vars, pid_vars>>

-----------------------------------------------------------------------------
(* The query engine at the metadata query, and get_tables_in_dataset *)

NoException == [kind |-> "none", args |-> "none"]
Exception(kind, args) == [kind |-> kind, args |-> args]

NoJob == [submit |-> "none", result |-> "none", job_errors |-> FALSE,
          rows_attrs |-> {}, rows |-> <<>>, job_id |-> "none"]

AllTablesQueryResultUnfiltered(dataset, table_names) == dataset

\* GET_ALL_TABLES_QUERY_TEMPLATE evaluated on the dataset's __TABLES__, which
\* holds one row per table of the dataset
AllTablesQueryResult(dataset, table_names) ==
    {table_id \in dataset : table_id \in Range(table_names)}

\* What the engine can do with the metadata job of get_tables_in_dataset:
\*   submit      client.query returns the job, or raises
\*   result      query_job.result() returns the rows, or raises
\*   job_errors  query_job.errors is set although result() returned
\*   rows_attrs  which of the attributes errors and job_id the object
\*               result() returns has (it differs between client libraries
\*               and test doubles)
\*   rows        the rows, in the order they arrive
EngineOutcomes(dataset, table_names) ==
    {[submit |-> "GoogleCloudError", result |-> "none", job_errors |-> FALSE,
      rows_attrs |-> {}, rows |-> <<>>, job_id |-> "none"]}
    \cup
    {[submit |-> "ok", result |-> r, job_errors |-> FALSE,
      rows_attrs |-> {}, rows |-> <<>>, job_id |-> "job_1"] :
        r \in {"GoogleCloudError", "TimeoutError"}}
    \cup
    {[submit |-> "ok", result |-> "ok", job_errors |-> e,
      rows_attrs |-> a, rows |-> rows, job_id |-> "job_1"] :
        e \in BOOLEAN, a \in SUBSET {"errors", "job_id"},
        rows \in Orderings(AllTablesQueryResult(dataset, table_names))}

\* The except clause of get_tables_in_dataset entered with exception e:
\* it formats result.job_id into the log record and raises e again.
\* result_bound: query_job.result() returned, so the local `result` is bound.
HandleResolverError(eng, e, result_bound) ==
    IF ~result_bound
    THEN [raised |-> Exception("UnboundLocalError", "result"), log |-> <<>>]
    ELSE IF "job_id" \notin eng.rows_attrs
    THEN [raised |-> Exception("AttributeError", "job_id"), log |-> <<>>]
    ELSE [raised |-> e,
          log |-> <<[at |-> "get_tables_in_dataset", job_id |-> eng.job_id,
                     error |-> e.kind]>>]

\* get_tables_in_dataset under the engine's behaviour eng:
\* [raised, log, value, submitted]
get_tables_in_dataset(eng) ==
    IF eng.submit # "ok"
    THEN \* client.query raised, outside the try block
         [raised |-> Exception(eng.submit, "engine"), log |-> <<>>,
          value |-> <<>>, submitted |-> 1]
    ELSE IF eng.result # "ok"
    THEN \* query_job.result() raised: `result` was never assigned
         HandleResolverError(eng, Exception(eng.result, "engine"), FALSE)
         @@ [value |-> <<>>, submitted |-> 1]
    ELSE IF eng.job_errors
    THEN \* raise RuntimeError(result.errors): reads the attribute first
         IF "errors" \notin eng.rows_attrs
         THEN [raised |-> Exception("AttributeError", "errors"),
               log |-> <<>>, value |-> <<>>, submitted |-> 1]
         ELSE HandleResolverError(
                  eng, Exception("RuntimeError", "result.errors"), TRUE)
              @@ [value |-> <<>>, submitted |-> 1]
    ELSE [raised |-> NoException, log |-> <<>>, value |-> eng.rows,
          submitted |-> 1]

-----------------------------------------------------------------------------
(* setup_rule *)

\* AbstractConceptSuppression.setup_rule: logs a GoogleCloudError and raises
\* it again; lets every other exception through
base_setup_rule(eng) ==
    LET got == get_tables_in_dataset(eng)
    IN  [raised |-> got.raised,
         log |-> IF got.raised.kind = "GoogleCloudError"
                 THEN got.log \o <<[at |-> "setup_rule", job_id |-> "none",
                                    error |-> got.raised.kind]>>
                 ELSE got.log,
         ok |-> got.raised = NoException,
         value |-> got.value,
         submitted |-> got.submitted]

LookupTablesCreatedAlways(ok) == 1

\* AbstractBqLookupTableConceptSuppression.setup_rule: the base setup, then
\* create_suppression_lookup_table; the in-memory variant inherits the base
LookupTablesCreated(ok) ==
    IF ok /\ variant = "bq_lookup" THEN 1 ELSE 0

\* setup_rule precedes get_query_specs in the life cycle of a rule
SetupRule ==
    /\ phase = "constructed"
    /\ ~planned
    /\ \E eng \in EngineOutcomes(DOMAIN table_rows, affected_tables) :
         LET done == base_setup_rule(eng)
         IN  /\ engine' = eng
             /\ submitted' = submitted + done.submitted
             /\ raised' = done.raised
             /\ log' = log \o done.log
             /\ affected_tables' =
                    IF done.ok THEN done.value ELSE affected_tables
             /\ phase' = IF done.ok THEN "setup_ok" ELSE "setup_failed"
             /\ lookup_created' = lookup_created + LookupTablesCreated(done.ok)
             /\ IF LookupTablesCreated(done.ok) > 0
                THEN \* the concrete rule fills the lookup table
                     \E ids \in ConceptIdLists : lookup_rows' = ids
                ELSE lookup_rows' = lookup_rows
    /\ UNCHANGED <<variant, init_tables>>
    /\ UNCHANGED <<suppressed_concept_ids, table_rows, sandbox_rows, run,
                   exec_pos, exec_error, first_run_rows>>
    /\ UNCHANGED <<plan_vars, slack_vars, pid_vars>>

-----------------------------------------------------------------------------
(* get_query_specs *)

NoTable == "none"

QuerySpec(query, dataset, table, disposition) ==
    [query |-> query, destination_dataset |-> dataset,
     destination_table |-> table, disposition |-> disposition]

Query(template, domain_table, fields, lookup, ids, sandbox_table) ==
    [template |-> template, domain_table |-> domain_table,
     concept_fields |-> fields, suppression_concept |-> lookup,
     suppressed_concept_ids |-> ids, sandbox_table |-> sandbox_table]

\* get_sandbox_query of the two variants: the rendered template and the
\* destination in the sandbox dataset
get_sandbox_query(table_name) ==
    QuerySpec(
        IF variant = "bq_lookup"
        THEN Query("BQ_LOOKUP_TABLE_SANDBOX_QUERY", table_name,
                   get_concept_id_fields(table_name), LookupTableId, <<>>,
                   NoTable)
        ELSE Query("IN_MEMORY_SANDBOX_QUERY", table_name,
                   get_concept_id_fields(table_name), NoTable,
                   suppressed_concept_ids, NoTable),
        SandboxDatasetId, sandbox_table_for(table_name), WRITE_TRUNCATE)

get_suppression_query_into_sandbox(table_name) ==
    QuerySpec(
        Query("SUPPRESSION_RECORD_QUERY", table_name, <<>>, NoTable, <<>>,
              sandbox_table_for(table_name)),
        SandboxDatasetId, sandbox_table_for(table_name), WRITE_TRUNCATE)

\* get_suppression_query: SUPPRESSION_RECORD_QUERY_TEMPLATE rendered for the
\* table and its sandbox table, written over the table itself
get_suppression_query(table_name) ==
    QuerySpec(
        Query("SUPPRESSION_RECORD_QUERY", table_name, <<>>, NoTable, <<>>,
              sandbox_table_for(table_name)),
        DatasetId, table_name, WRITE_TRUNCATE)

get_sandbox_tablenames ==
    [i \in 1..Len(affected_tables) |-> sandbox_table_for(affected_tables[i])]

\* base_cleaning_rule.get_delete_empty_sandbox_tables_queries (not part of
\* the sources at hand): one cleanup query per sandbox table, which drops
\* the table when it holds no row
get_delete_empty_sandbox_tables_queries(sandbox_tablenames) ==
    [i \in 1..Len(sandbox_tablenames) |->
        QuerySpec(
            Query("DROP_EMPTY_SANDBOX_TABLE", NoTable, <<>>, NoTable, <<>>,
                  sandbox_tablenames[i]),
            NoTable, NoTable, "none")]

get_query_specs_rewrite_first ==
    [i \in 1..Len(affected_tables) |->
        get_suppression_query(affected_tables[i])]
    \o [i \in 1..Len(affected_tables) |->
        get_sandbox_query(affected_tables[i])]
    \o get_delete_empty_sandbox_tables_queries(get_sandbox_tablenames)

get_query_specs_no_rewrite ==
    [i \in 1..Len(affected_tables) |->
        get_sandbox_query(affected_tables[i])]
    \o get_delete_empty_sandbox_tables_queries(get_sandbox_tablenames)

get_query_specs ==
    LET sandbox_queries ==
            [i \in 1..Len(affected_tables) |->
                get_sandbox_query(affected_tables[i])]
        queries ==
            [i \in 1..Len(affected_tables) |->
                get_suppression_query(affected_tables[i])]
        delete_empty_sandbox_queries ==
            get_delete_empty_sandbox_tables_queries(get_sandbox_tablenames)
    IN  sandbox_queries \o queries \o delete_empty_sandbox_queries

\* get_query_specs has no guard on setup_rule: it plans for whatever
\* affected_tables holds once the rule is constructed
GetQuerySpecs ==
    /\ phase # "new"
    /\ ~planned
    /\ planned' = TRUE
    /\ query_specs' = get_query_specs
    /\ UNCHANGED <<rule_vars, data_vars, slack_vars, pid_vars>>

-----------------------------------------------------------------------------
(* The warehouse: the rows of the tables and the queries of the plan       *)
(* evaluated on them.  A table is a bag of rows; a row is                  *)
(* [id |-> the <table>_id column, c |-> concept-id field -> value].        *)

IdValues == {Null, Val(1), Val(2)}
ConceptValues == {Val(n) : n \in ConceptIds}

RowsOf(table_name) ==
    {[id |-> i, c |-> c] :
        i \in IdValues,
        c \in [Range(get_concept_id_fields(table_name)) -> ConceptValues]}

BagsUpTo(U, n) ==
    {b \in UNION {[S -> 1..n] : S \in {S \in SUBSET U : Cardinality(S) <= n}} :
        BagCardinality(b) <= n}

\* the contents of the tables T that hold at most n rows together
RECURSIVE Contents(_, _)
Contents(T, n) ==
    IF T = {} THEN {<<>>}
    ELSE LET t == CHOOSE t \in T : TRUE
         IN  UNION {{(t :> b) @@ f :
                        f \in Contents(T \ {t}, n - BagCardinality(b))} :
                    b \in BagsUpTo(RowsOf(t), n)}

\* number of rows of the denylist whose concept_id equals the column value v
\* (SQL equality: a NULL equals nothing)
JoinMatches(concepts, v) ==
    Cardinality({i \in 1..Len(concepts) : v = Val(concepts[i])})

RECURSIVE Product(_, _)
Product(f, S) ==
    IF S = {} THEN 1
    ELSE LET x == CHOOSE x \in S : TRUE IN f[x] * Product(f, S \ {x})

SandboxQueryRowsAllFields(rows, concept_fields, concepts) ==
    LET selected == {r \in DOMAIN rows :
                        \A i \in 1..Len(concept_fields) :
                            JoinMatches(concepts, r.c[concept_fields[i]]) > 0}
    IN  [r \in selected |-> rows[r]]

\* BQ_LOOKUP_TABLE_SANDBOX_QUERY_TEMPLATE and IN_MEMORY_SANDBOX_QUERY_TEMPLATE
\* on the rows of the domain table: one LEFT JOIN per concept field against
\* the denylist, WHERE COALESCE(s1.concept_id, ..) IS NOT NULL.  A LEFT JOIN
\* yields one row per matching denylist row, and one row (with NULLs) when
\* none matches.
SandboxQueryRows(rows, concept_fields, concepts) ==
    LET joined(r) ==
            [i \in 1..Len(concept_fields) |->
                JoinMatches(concepts, r.c[concept_fields[i]])]
        copies(r) ==
            Product([i \in 1..Len(concept_fields) |->
                        IF joined(r)[i] = 0 THEN 1 ELSE joined(r)[i]],
                    1..Len(concept_fields))
        selected == {r \in DOMAIN rows :
                        \E i \in 1..Len(concept_fields) : joined(r)[i] > 0}
    IN  [r \in selected |-> rows[r] * copies(r)]

SuppressionQueryRowsMatched(rows, sandbox) ==
    LET kept == {r \in DOMAIN rows :
                    \E s \in DOMAIN sandbox : r.id # Null /\ r.id = s.id}
    IN  [r \in kept |-> rows[r]]

\* SUPPRESSION_RECORD_QUERY_TEMPLATE: d LEFT JOIN s ON d.<table>_id =
\* s.<table>_id WHERE s.<table>_id IS NULL
SuppressionQueryRows(rows, sandbox) ==
    LET kept == {r \in DOMAIN rows :
                    ~\E s \in DOMAIN sandbox : r.id # Null /\ r.id = s.id}
    IN  [r \in kept |-> rows[r]]

Restrict(f, S) == [x \in S |-> f[x]]

\* One query spec run by the engine on the warehouse:
\* [tables, sandbox, error]
ExecuteQuery(spec, tables, sandbox, lookup) ==
    LET q == spec.query
        unchanged == [tables |-> tables, sandbox |-> sandbox,
                      error |-> "none"]
        notfound == [tables |-> tables, sandbox |-> sandbox,
                     error |-> "NotFound"]
        write(rows) ==
            IF spec.destination_dataset = SandboxDatasetId
            THEN [unchanged EXCEPT
                    !.sandbox = (spec.destination_table :> rows) @@ sandbox]
            ELSE [unchanged EXCEPT
                    !.tables = (spec.destination_table :> rows) @@ tables]
    IN  CASE q.template = "BQ_LOOKUP_TABLE_SANDBOX_QUERY" ->
                IF q.domain_table \notin DOMAIN tables THEN notfound
                ELSE write(SandboxQueryRows(tables[q.domain_table],
                                            q.concept_fields, lookup))
          [] q.template = "IN_MEMORY_SANDBOX_QUERY" ->
                IF q.domain_table \notin DOMAIN tables THEN notfound
                ELSE write(SandboxQueryRows(tables[q.domain_table],
                                            q.concept_fields,
                                            q.suppressed_concept_ids))
          [] q.template = "SUPPRESSION_RECORD_QUERY" ->
                IF q.domain_table \notin DOMAIN tables
                   \/ q.sandbox_table \notin DOMAIN sandbox
                THEN notfound
                ELSE write(SuppressionQueryRows(tables[q.domain_table],
                                                sandbox[q.sandbox_table]))
          [] OTHER ->
                \* the cleanup query: drop the sandbox table if it is empty
                IF q.sandbox_table \in DOMAIN sandbox
                   /\ sandbox[q.sandbox_table] = EmptyBag
                THEN [unchanged EXCEPT
                        !.sandbox = Restrict(sandbox,
                                             DOMAIN sandbox \ {q.sandbox_table})]
                ELSE unchanged

\* the runner executes the next query spec of the plan
ExecuteQuerySpec ==
    /\ planned
    /\ exec_error = "none"
    /\ exec_pos < Len(query_specs)
    /\ LET done == ExecuteQuery(query_specs[exec_pos + 1], table_rows,
                                sandbox_rows, lookup_rows)
       IN  /\ table_rows' = done.tables
           /\ sandbox_rows' = done.sandbox
           /\ exec_error' = done.error
           /\ exec_pos' = IF done.error = "none" THEN exec_pos + 1
                          ELSE exec_pos
    /\ UNCHANGED <<suppressed_concept_ids, lookup_rows, run, first_run_rows>>
    /\ UNCHANGED <<rule_vars, plan_vars, slack_vars, pid_vars>>

\* the runner executes the same plan once more on what the first run left
RunAgain ==
    /\ planned
    /\ exec_error = "none"
    /\ exec_pos = Len(query_specs)
    /\ run = 1
    /\ run' = 2
    /\ exec_pos' = 0
    /\ first_run_rows' = table_rows
    /\ UNCHANGED <<suppressed_concept_ids, table_rows, lookup_rows,
                   sandbox_rows, exec_error>>
    /\ UNCHANGED <<rule_vars, plan_vars, slack_vars, pid_vars>>

-----------------------------------------------------------------------------
(* slack_alerts *)

SLACK_TOKEN == "SLACK_TOKEN"
SLACK_CHANNEL == "SLACK_CHANNEL"
UNSET_SLACK_TOKEN_MSG == "Slack token not set in environment variable SLACK_TOKEN"
UNSET_SLACK_CHANNEL_MSG == "Slack channel not set in environment variable SLACK_CHANNEL"

Texts == {"alert", ""}
Environments ==
    {[k \in S |-> IF k = SLACK_TOKEN THEN "xoxb-token" ELSE "alerts"] :
        S \in SUBSET {SLACK_TOKEN, SLACK_CHANNEL}}

SlackResult(op, exc, msg, ret, logged) ==
    [op |-> op, raised |-> exc, msg |-> msg, returned |-> ret,
     logged |-> logged]

\* _get_slack_token, _get_slack_channel_name: the value, or the message of
\* the SlackConfigurationError raised
ConfigurationErrorTokenOnly(environ) ==
    IF SLACK_TOKEN \notin DOMAIN environ THEN UNSET_SLACK_TOKEN_MSG
    ELSE "none"

\* what _get_slack_client() followed by _get_slack_channel_name() raises:
\* the message of the SlackConfigurationError, or "none"
ConfigurationError(environ) ==
    IF SLACK_TOKEN \notin DOMAIN environ THEN UNSET_SLACK_TOKEN_MSG
    ELSE IF SLACK_CHANNEL \notin DOMAIN environ THEN UNSET_SLACK_CHANNEL_MSG
    ELSE "none"

EnvGet(environ, name) ==
    IF name \in DOMAIN environ THEN environ[name] ELSE "None"

\* post_message(text); api is what chat_postMessage does: "ok" or
\* "SlackApiError"
post_message(text) ==
    /\ Len(slack_results) < MaxCalls
    /\ IF ConfigurationError(env) # "none"
       THEN /\ slack_calls' = slack_calls
            /\ slack_results' = Append(slack_results,
                   SlackResult("post_message", "SlackConfigurationError",
                               ConfigurationError(env), "none", FALSE))
       ELSE \E api \in {"ok", "SlackApiError"} :
            /\ slack_calls' = Append(slack_calls,
                   [method |-> "chat_postMessage",
                    token |-> EnvGet(env, SLACK_TOKEN),
                    channel |-> EnvGet(env, SLACK_CHANNEL), text |-> text])
            /\ slack_results' = Append(slack_results,
                   IF api = "ok"
                   THEN SlackResult("post_message", "none", "none",
                                    "response", FALSE)
                   ELSE SlackResult("post_message", "SlackApiError",
                                    "none", "none", FALSE))
    /\ UNCHANGED env
    /\ UNCHANGED <<rule_vars, plan_vars, data_vars, pid_vars>>

PostMessage == \E text \in Texts : post_message(text)

HandleChannelErrorSilently(msg) ==
    SlackResult("is_channel_available", "none", "none", "False", FALSE)

\* the except clause of is_channel_available, entered with a
\* SlackConfigurationError or a SlackApiError of message msg:
\* logging.error(e), then the function returns False
HandleChannelError(msg) ==
    SlackResult("is_channel_available", "none", msg, "False", TRUE)

\* is_channel_available(); api is what conversations_list does:
\* "SlackApiError", or a response [status_code, channels]
is_channel_available ==
    /\ Len(slack_results) < MaxCalls
    /\ IF ConfigurationError(env) # "none"
       THEN /\ slack_calls' = slack_calls
            /\ slack_results' = Append(slack_results,
                   HandleChannelError(ConfigurationError(env)))
       ELSE \E api \in {"SlackApiError", "not_200", "200_without_channel",
                        "200_with_channel"} :
            /\ slack_calls' = Append(slack_calls,
                   [method |-> "conversations_list",
                    token |-> EnvGet(env, SLACK_TOKEN),
                    channel |-> "none", text |-> "none"])
            /\ slack_results' = Append(slack_results,
                   IF api = "SlackApiError"
                   THEN HandleChannelError("SlackApiError")
                   ELSE SlackResult("is_channel_available", "none", "none",
                                    IF api = "200_with_channel" THEN "True"
                                    ELSE "False",
                                    FALSE))
    /\ UNCHANGED env
    /\ UNCHANGED <<rule_vars, plan_vars, data_vars, pid_vars>>

-----------------------------------------------------------------------------
(* participant_row_counts.get_pid_sql_expr *)

\* A pid source is a Python value: a list of integer participant ids, a
\* string (held as its parts between the dots), or a value of another type
PidValues == {1, 2, 3, 4}
IdentifierParts == {"project_id", "dataset_id", "table_id"}
OtherTypes == {"int", "NoneType", "dict"}

PidSource(type, pids, parts) ==
    [type |-> type, pids |-> pids, parts |-> parts]

PidSources ==
    {PidSource("list", pids, <<>>) : pids \in SeqsUpTo(PidValues, MaxPids)}
    \cup {PidSource("str", <<>>, parts) :
             parts \in SeqsUpTo(IdentifierParts, MaxParts) \ {<<>>}}
    \cup {PidSource(type, <<>>, <<>>) : type \in OtherTypes}

NoSource == PidSource("none", <<>>, <<>>)
NoResult == [raised |-> "none", value |-> "not called"]

\* sep.join(strs)
RECURSIVE Join(_, _)
Join(sep, strs) ==
    IF strs = <<>> THEN ""
    ELSE IF Len(strs) = 1 THEN strs[1]
    ELSE strs[1] \o sep \o Join(sep, Tail(strs))

\* a string names a table when it reads project.dataset.table
IsFullyQualified(parts) == Len(parts) = 3

get_pid_sql_expr_any_string(source) ==
    IF source.type = "list"
    THEN [raised |-> "none",
          value |-> "(" \o Join(", ", [i \in 1..Len(source.pids) |->
                                          ToString(source.pids[i])])
                        \o ")"]
    ELSE IF source.type = "str"
    THEN [raised |-> "none",
          value |-> "(SELECT person_id FROM "
                        \o Join(".", source.parts) \o ")"]
    ELSE [raised |-> "ValueError", value |-> "none"]

\* get_pid_sql_expr(pid_source) (not part of the sources at hand; from its
\* unit test and its contract): '(p1, p2, ...)' for a list, a subquery on
\* the table for a fully qualified table identifier, ValueError otherwise
get_pid_sql_expr(source) ==
    IF source.type = "list"
    THEN [raised |-> "none",
          value |-> "(" \o Join(", ", [i \in 1..Len(source.pids) |->
                                          ToString(source.pids[i])])
                        \o ")"]
    ELSE IF source.type = "str" /\ IsFullyQualified(source.parts)
    THEN [raised |-> "none",
          value |-> "(SELECT person_id FROM "
                        \o Join(".", source.parts) \o ")"]
    ELSE [raised |-> "ValueError", value |-> "none"]

GetPidSqlExpr ==
    /\ pid_source # NoSource
    /\ pid_result = NoResult
    /\ pid_result' = get_pid_sql_expr(pid_source)
    /\ UNCHANGED pid_source
    /\ UNCHANGED <<rule_vars, plan_vars, data_vars, slack_vars>>

-----------------------------------------------------------------------------
(* The life cycle of a rule *)

NoData ==
    /\ sandbox_rows = <<>>
    /\ run = 1
    /\ exec_pos = 0
    /\ exec_error = "none"
    /\ first_run_rows = <<>>

NoSlack ==
    /\ env = <<>>
    /\ slack_calls = <<>>
    /\ slack_results = <<>>

NoPid ==
    /\ pid_source = NoSource
    /\ pid_result = NoResult

Init ==
    /\ variant \in {"bq_lookup", "in_memory"}
    /\ init_tables \in SeqsUpTo(Tables, MaxTables)
    /\ phase = "new"
    /\ affected_tables = init_tables
    /\ engine = NoJob
    /\ submitted = 0
    /\ raised = NoException
    /\ log = <<>>
    /\ lookup_created = 0
    /\ planned = FALSE
    /\ query_specs = <<>>
    /\ suppressed_concept_ids \in
           IF variant = "in_memory" THEN ConceptIdLists ELSE {<<>>}
    /\ \E dataset \in SUBSET Tables :
           table_rows = [t \in dataset |-> EmptyBag]
    /\ lookup_rows = <<>>
    /\ NoData
    /\ NoSlack
    /\ NoPid

Next ==
    \/ Construct
    \/ SetupRule
    \/ GetQuerySpecs

Spec == Init /\ [][Next]_vars

-----------------------------------------------------------------------------
(* The plan executed on the warehouse: the state after a setup_rule that   *)
(* succeeded, on a dataset that holds the resolved tables                  *)

ResolvedLists ==
    {s \in SeqsUpTo(ValidTables, Cardinality(ValidTables)) : NoDuplicates(s)}

InitRun ==
    /\ variant \in {"bq_lookup", "in_memory"}
    /\ affected_tables \in ResolvedLists
    /\ init_tables = affected_tables
    /\ phase = "setup_ok"
    /\ engine = [submit |-> "ok", result |-> "ok", job_errors |-> FALSE,
                 rows_attrs |-> {"job_id"}, rows |-> affected_tables,
                 job_id |-> "job_1"]
    /\ submitted = 1
    /\ raised = NoException
    /\ log = <<>>
    /\ lookup_created = IF variant = "bq_lookup" THEN 1 ELSE 0
    /\ planned = FALSE
    /\ query_specs = <<>>
    /\ suppressed_concept_ids \in
           IF variant = "in_memory" THEN ConceptIdLists ELSE {<<>>}
    /\ lookup_rows \in
           IF variant = "bq_lookup" THEN ConceptIdLists ELSE {<<>>}
    /\ table_rows \in Contents(Range(affected_tables), MaxRows)
    /\ NoData
    /\ NoSlack
    /\ NoPid

NextRun ==
    \/ GetQuerySpecs
    \/ ExecuteQuerySpec
    \/ RunAgain

SpecRun == InitRun /\ [][NextRun]_vars

-----------------------------------------------------------------------------
(* The notification module *)

InitSlack ==
    /\ variant = "in_memory"
    /\ init_tables = <<>>
    /\ phase = "new"
    /\ affected_tables = <<>>
    /\ engine = NoJob
    /\ submitted = 0
    /\ raised = NoException
    /\ log = <<>>
    /\ lookup_created = 0
    /\ planned = FALSE
    /\ query_specs = <<>>
    /\ suppressed_concept_ids = <<>>
    /\ table_rows = <<>>
    /\ lookup_rows = <<>>
    /\ NoData
    /\ env \in Environments
    /\ slack_calls = <<>>
    /\ slack_results = <<>>
    /\ NoPid

NextSlack ==
    \/ PostMessage
    \/ is_channel_available

SpecSlack == InitSlack /\ [][NextSlack]_vars

InitPid ==
    /\ variant = "in_memory"
    /\ init_tables = <<>>
    /\ phase = "new"
    /\ affected_tables = <<>>
    /\ engine = NoJob
    /\ submitted = 0
    /\ raised = NoException
    /\ log = <<>>
    /\ lookup_created = 0
    /\ planned = FALSE
    /\ query_specs = <<>>
    /\ suppressed_concept_ids = <<>>
    /\ table_rows = <<>>
    /\ lookup_rows = <<>>
    /\ NoData
    /\ NoSlack
    /\ pid_source \in PidSources
    /\ pid_result = NoResult

NextPid == GetPidSqlExpr

SpecPid == InitPid /\ [][NextPid]_vars

-----------------------------------------------------------------------------
(* Properties of the life cycle (checked under Spec)                       *)

SandboxTemplates ==
    {"BQ_LOOKUP_TABLE_SANDBOX_QUERY", "IN_MEMORY_SANDBOX_QUERY"}

IsSandboxSpecFor(spec, t) ==
    /\ spec.query.template \in SandboxTemplates
    /\ spec.query.domain_table = t
    /\ spec.destination_table = sandbox_table_for(t)

IsRewriteSpecFor(spec, t) ==
    /\ spec.query.template = "SUPPRESSION_RECORD_QUERY"
    /\ spec.query.domain_table = t
    /\ spec.query.sandbox_table = sandbox_table_for(t)

IsCleanupSpec(spec) == spec.query.template = "DROP_EMPTY_SANDBOX_TABLE"

\* C1: after construction affected_tables holds exactly the tables of the
\* input, in input order, that have at least one concept-id field and a
\* <table>_id column; the others are dropped without an exception, and no
\* query spec of the plan names a table that was dropped.
C1_AffectedTablesFiltered ==
    LET kept == SelectSeq(init_tables, LAMBDA t : t \in ValidTables)
    IN  /\ phase = "constructed" =>
             affected_tables = kept /\ raised = NoException
        /\ phase # "new" => Range(affected_tables) \subseteq Range(kept)
        /\ planned =>
             \A k \in 1..Len(query_specs) :
                LET q == query_specs[k].query
                IN  /\ q.domain_table \in Range(kept) \cup {NoTable}
                    /\ q.sandbox_table \in
                         {sandbox_table_for(t) : t \in Range(kept)}
                         \cup {NoTable}
                    /\ query_specs[k].destination_table \in
                         Range(kept)
                         \cup {sandbox_table_for(t) : t \in Range(kept)}
                         \cup {NoTable}

C1_Witness ==
    /\ phase = "constructed"
    /\ planned
    /\ init_tables = <<"death", "condition_occurrence">>
    /\ affected_tables = <<"condition_occurrence">>
    /\ Len(query_specs) > 0

\* C2: the plan holds the sandbox specs first, one per table in the order
\* of affected_tables, then the rewrite specs, one per table in the same
\* order, then only cleanup specs; so a table's sandbox spec comes before
\* its rewrite spec and every cleanup spec comes after every sandbox spec.
C2_PlanOrder ==
    planned =>
        LET n == Len(affected_tables)
        IN  /\ Len(query_specs) >= 2 * n
            /\ \A i \in 1..n :
                  /\ IsSandboxSpecFor(query_specs[i], affected_tables[i])
                  /\ IsRewriteSpecFor(query_specs[n + i], affected_tables[i])
            /\ \A k \in (2 * n + 1)..Len(query_specs) :
                  IsCleanupSpec(query_specs[k])
            /\ \A i, j \in 1..Len(query_specs) :
                  /\ (/\ query_specs[i].query.template \in SandboxTemplates
                      /\ IsCleanupSpec(query_specs[j])) => i < j
                  /\ (/\ query_specs[i].query.template \in SandboxTemplates
                      /\ IsRewriteSpecFor(query_specs[j],
                                          query_specs[i].query.domain_table))
                     => i < j

C2_Witness ==
    /\ planned
    /\ phase = "setup_ok"
    /\ affected_tables = <<"observation", "condition_occurrence">>
    /\ IsSandboxSpecFor(query_specs[2], "condition_occurrence")
    /\ IsRewriteSpecFor(query_specs[3], "observation")

\* C3: the plan for n tables holds at least 3 * n query specs.
C3_PlanLength ==
    planned => Len(query_specs) >= 3 * Len(affected_tables)

C3_Witness ==
    /\ planned
    /\ phase = "setup_ok"
    /\ Len(affected_tables) = 2
    /\ Len(query_specs) = 6

\* C4: when query_job.result() raises a transport error or a timeout, the
\* error is logged with the job identifier and the same error reaches the
\* caller of setup_rule, after exactly one metadata query.
C4_EngineErrorPropagatesUnchanged ==
    (engine.submit = "ok"
     /\ engine.result \in {"GoogleCloudError", "TimeoutError"}) =>
        /\ phase = "setup_failed"
        /\ raised = Exception(engine.result, "engine")
        /\ \E k \in 1..Len(log) :
              /\ log[k].job_id = engine.job_id
              /\ log[k].error = engine.result
        /\ submitted = 1

\* C5: when the job completes without raising but reports errors,
\* get_tables_in_dataset returns no table list and raises a RuntimeError.
C5_JobErrorsRaiseRuntimeError ==
    (engine.submit = "ok" /\ engine.result = "ok" /\ engine.job_errors) =>
        /\ phase = "setup_failed"
        /\ raised.kind = "RuntimeError"

\* C6: get_tables_in_dataset returns only names it was given and that exist
\* in the dataset, none of them twice: after a setup_rule that succeeded,
\* affected_tables is a duplicate-free subset of what it was after
\* construction.
C6_ResolvedSubset ==
    phase = "setup_ok" =>
        /\ Range(affected_tables) \subseteq
              Range(FilterAffectedTables(init_tables))
        /\ Range(affected_tables) \subseteq DOMAIN table_rows
        /\ NoDuplicates(affected_tables)

C6_Witness ==
    /\ phase = "setup_ok"
    /\ init_tables = <<"condition_occurrence", "condition_occurrence">>
    /\ affected_tables = <<"condition_occurrence">>
    /\ "observation" \in DOMAIN table_rows

-----------------------------------------------------------------------------
(* Properties of the executed plan (checked under SpecRun)                 *)

\* the denylist of the rule: the rows of the lookup table, or the list of
\* get_suppressed_concept_ids
Denylist ==
    IF variant = "bq_lookup" THEN lookup_rows ELSE suppressed_concept_ids

\* the row holds a denylisted concept in at least one concept-id field
HoldsSuppressedConcept(r, t) ==
    \E f \in Range(get_concept_id_fields(t)) :
        \E k \in 1..Len(Denylist) : r.c[f] = Val(Denylist[k])

\* the sandbox specs executed in this run, while no rewrite has run yet
SandboxedNow ==
    IF planned /\ exec_pos <= Len(affected_tables) THEN 1..exec_pos ELSE {}

\* C7: in both variants the sandbox query of a table selects a row if and
\* only if at least one of its concept-id fields holds a denylisted concept.
C7_SandboxSelectsAnyMatch ==
    \A i \in SandboxedNow :
        LET t == affected_tables[i]
        IN  /\ sandbox_table_for(t) \in DOMAIN sandbox_rows
            /\ BagToSet(sandbox_rows[sandbox_table_for(t)]) =
                  {r \in BagToSet(table_rows[t]) : HoldsSuppressedConcept(r, t)}

\* a row whose only denylisted concept is in its second concept-id field
C7_Witness ==
    /\ 1 \in SandboxedNow
    /\ affected_tables[1] = "condition_occurrence"
    /\ Denylist = <<99>>
    /\ \E r \in BagToSet(sandbox_rows["sbx_condition_occurrence"]) :
          /\ r.c["condition_concept_id"] = Val(10)
          /\ r.c["condition_source_concept_id"] = Val(99)

\* C8: with an empty denylist the plan still holds a sandbox spec and a
\* rewrite spec for every table, every sandbox query selects no row, no
\* step changes the rows of a table, the cleanup step of a table removes
\* its sandbox table, and the engine reports no error.
C8_EmptyDenylistState ==
    Denylist = <<>> =>
        LET n == Len(affected_tables)
        IN  /\ exec_error = "none"
            /\ planned =>
                  \A i \in 1..n :
                     /\ IsSandboxSpecFor(query_specs[i], affected_tables[i])
                     /\ IsRewriteSpecFor(query_specs[n + i],
                                         affected_tables[i])
            /\ \A st \in DOMAIN sandbox_rows : sandbox_rows[st] = EmptyBag
            /\ \A i \in 1..n :
                  (planned /\ exec_pos >= i) =>
                     (sandbox_table_for(affected_tables[i])
                          \in DOMAIN sandbox_rows
                      <=> exec_pos < 2 * n + i)

C8_EmptyDenylistNoOp ==
    /\ []C8_EmptyDenylistState
    /\ [][Denylist = <<>> => table_rows' = table_rows]_vars

C8_Witness ==
    /\ Denylist = <<>>
    /\ planned
    /\ Len(affected_tables) = 2
    /\ exec_pos = Len(query_specs)
    /\ run = 1
    /\ sandbox_rows = <<>>
    /\ \E t \in DOMAIN table_rows : table_rows[t] # EmptyBag

\* C9: executing the plan a second time yields sandbox tables with no row
\* and leaves the dataset as the first execution left it.
C9_SecondRunIsNoOp ==
    run = 2 =>
        /\ table_rows = first_run_rows
        /\ \A i \in SandboxedNow :
              sandbox_rows[sandbox_table_for(affected_tables[i])] = EmptyBag

-----------------------------------------------------------------------------
(* Properties of the notification module (checked under SpecSlack)        *)

ChatPostMessageCalls ==
    {k \in 1..Len(slack_calls) : slack_calls[k].method = "chat_postMessage"}

\* C10: post_message raises SlackConfigurationError, and makes no
\* chat_postMessage call, when the token or the channel name is missing
\* from the environment; chat_postMessage is called only with both present.
C10_PostMessageNeedsConfiguration ==
    LET posts == {k \in 1..Len(slack_results) :
                     slack_results[k].op = "post_message"}
        configured == {SLACK_TOKEN, SLACK_CHANNEL} \subseteq DOMAIN env
    IN  /\ ~configured =>
              /\ ChatPostMessageCalls = {}
              /\ \A k \in posts :
                    slack_results[k].raised = "SlackConfigurationError"
        /\ configured =>
              /\ Cardinality(ChatPostMessageCalls) = Cardinality(posts)
              /\ \A k \in posts :
                    slack_results[k].raised # "SlackConfigurationError"
        /\ \A k \in ChatPostMessageCalls :
              /\ slack_calls[k].token # "None"
              /\ slack_calls[k].channel # "None"

C10_Witness ==
    /\ DOMAIN env = {SLACK_TOKEN}
    /\ Len(slack_results) = 2
    /\ slack_results[1].op = "post_message"
    /\ slack_results[1].raised = "SlackConfigurationError"
    /\ slack_results[1].msg = UNSET_SLACK_CHANNEL_MSG
    /\ slack_calls = <<>>

\* C11 as stated: with the token or the channel name missing from the
\* environment, post_message and is_channel_available both end with a
\* SlackConfigurationError in their caller.
C11_ConfigurationErrorAlwaysSurfaces ==
    ~({SLACK_TOKEN, SLACK_CHANNEL} \subseteq DOMAIN env) =>
        \A k \in 1..Len(slack_results) :
            slack_results[k].raised = "SlackConfigurationError"

\* C11 as amended: with the token or the channel name missing,
\* post_message raises SlackConfigurationError; is_channel_available
\* catches it, logs its message with logging.error and returns False;
\* neither makes a call to the Slack web API.
C11_ConfigurationErrorRaisedOrLogged ==
    ~({SLACK_TOKEN, SLACK_CHANNEL} \subseteq DOMAIN env) =>
        /\ slack_calls = <<>>
        /\ \A k \in 1..Len(slack_results) :
              LET r == slack_results[k]
              IN  IF r.op = "post_message"
                  THEN /\ r.raised = "SlackConfigurationError"
                       /\ r.returned = "none"
                  ELSE /\ r.raised = "none"
                       /\ r.returned = "False"
                       /\ r.logged
                       /\ r.msg = ConfigurationError(env)

C11_Witness ==
    /\ DOMAIN env = {SLACK_CHANNEL}
    /\ Len(slack_results) = 2
    /\ slack_results[1].op = "is_channel_available"
    /\ slack_results[1].returned = "False"
    /\ slack_results[1].msg = UNSET_SLACK_TOKEN_MSG
    /\ slack_results[2].op = "post_message"
    /\ slack_results[2].raised = "SlackConfigurationError"

\* C13: in the lookup-table variant create_suppression_lookup_table runs
\* only after the base setup has completed (its one query submitted, the
\* affected tables resolved), exactly once when the base setup succeeds and
\* never when it raises; a failed setup leaves affected_tables at the value
\* it was constructed with. The in-memory variant never creates a table.
C13_LookupTableAfterBaseSetup ==
    /\ lookup_created > 0 =>
          /\ variant = "bq_lookup"
          /\ phase = "setup_ok"
          /\ submitted = 1
          /\ raised = NoException
    /\ (variant = "bq_lookup" /\ phase = "setup_ok") => lookup_created = 1
    /\ phase = "setup_failed" =>
          /\ lookup_created = 0
          /\ raised # NoException
          /\ affected_tables = FilterAffectedTables(init_tables)

C13_Witness ==
    /\ variant = "bq_lookup"
    /\ phase = "setup_failed"
    /\ lookup_created = 0
    /\ affected_tables # <<>>
    /\ submitted = 1

Destination(spec) ==
    <<spec.destination_dataset, spec.destination_table>>

SpecsFor(t) ==
    {k \in 1..Len(query_specs) :
        /\ query_specs[k].query.domain_table = t
        /\ query_specs[k].query.template
              \in SandboxTemplates \cup {"SUPPRESSION_RECORD_QUERY"}}

\* C14: for each target table t of the plan, in both variants, the sandbox
\* step writes sandbox_table_for(t) in the sandbox dataset and the rewrite
\* step writes t in the rule's dataset, both with the overwrite disposition;
\* the rewrite query reads exactly the sandbox table the sandbox step of t
\* wrote; and no step for t writes the location of a step for another table.
C14_SpecDestinations ==
    planned =>
        /\ \A k \in 1..Len(query_specs) :
              LET spec == query_specs[k]
                  t == spec.query.domain_table
              IN  /\ spec.query.template \in SandboxTemplates =>
                        /\ Destination(spec) =
                              <<SandboxDatasetId, sandbox_table_for(t)>>
                        /\ spec.disposition = WRITE_TRUNCATE
                  /\ spec.query.template = "SUPPRESSION_RECORD_QUERY" =>
                        /\ Destination(spec) = <<DatasetId, t>>
                        /\ spec.disposition = WRITE_TRUNCATE
                        /\ \E j \in SpecsFor(t) :
                              /\ query_specs[j].query.template
                                    \in SandboxTemplates
                              /\ Destination(query_specs[j]) =
                                    <<SandboxDatasetId,
                                      spec.query.sandbox_table>>
        /\ \A t, u \in Range(affected_tables) :
              t # u =>
                 \A i \in SpecsFor(t), j \in SpecsFor(u) :
                    Destination(query_specs[i]) # Destination(query_specs[j])

C14_Witness ==
    /\ planned
    /\ variant = "in_memory"
    /\ Len(affected_tables) = 2
    /\ Destination(query_specs[2]) =
          <<SandboxDatasetId, sandbox_table_for(affected_tables[2])>>
    /\ Destination(query_specs[3]) = <<DatasetId, affected_tables[1]>>
    /\ query_specs[3].query.sandbox_table = query_specs[1].destination_table

\* the rows of table t that hold a denylisted concept, and those that hold
\* none, each as often as the table holds it
Matching(rows, t) ==
    [r \in {r \in DOMAIN rows : HoldsSuppressedConcept(r, t)} |-> rows[r]]

NonMatching(rows, t) ==
    [r \in {r \in DOMAIN rows : ~HoldsSuppressedConcept(r, t)} |-> rows[r]]

\* C15: when the rewrite step of a table runs after its sandbox step, the
\* rewritten table holds exactly the original rows that hold no denylisted
\* concept, the sandbox table holds exactly the original rows that hold
\* one, each once per original row, and so every original row missing from
\* the rewritten table is in the sandbox table.
C15_RewriteAndSandboxPartition ==
    [][(/\ planned
        /\ run = 1
        /\ exec_pos < Len(query_specs)
        /\ exec_pos' = exec_pos + 1
        /\ query_specs[exec_pos + 1].query.template
              = "SUPPRESSION_RECORD_QUERY")
       => LET t == query_specs[exec_pos + 1].query.domain_table
              original == table_rows[t]
          IN  /\ table_rows'[t] = NonMatching(original, t)
              /\ sandbox_rows'[sandbox_table_for(t)] = Matching(original, t)
              /\ \A r \in DOMAIN original :
                    CopiesIn(r, table_rows'[t]) < original[r] =>
                        CopiesIn(r, sandbox_rows'[sandbox_table_for(t)]) > 0
      ]_vars

-----------------------------------------------------------------------------
(* Properties of get_pid_sql_expr (checked under SpecPid)                  *)

\* the text of p1, p2, ... pn separated by ", ", built from the last id
RECURSIVE CommaSeparated(_)
CommaSeparated(pids) ==
    IF pids = <<>> THEN ""
    ELSE IF Len(pids) = 1 THEN ToString(pids[1])
    ELSE CommaSeparated(SubSeq(pids, 1, Len(pids) - 1)) \o ", "
             \o ToString(pids[Len(pids)])

Malformed(source) ==
    \/ source.type \notin {"list", "str"}
    \/ source.type = "str" /\ Len(source.parts) # 3

\* C12: get_pid_sql_expr returns '(p1, p2, ...)' for every list of integer
\* participant ids; for a string that is not a fully qualified
\* project.dataset.table identifier and for a value of a wrong type it
\* raises ValueError and returns no query string.
C12_PidExprOrValueError ==
    pid_result # NoResult =>
        /\ pid_source.type = "list" =>
              /\ pid_result.raised = "none"
              /\ pid_result.value =
                    "(" \o CommaSeparated(pid_source.pids) \o ")"
              /\ Len(pid_result.value) =
                    IF pid_source.pids = <<>> THEN 2
                    ELSE 3 * Len(pid_source.pids)
        /\ Malformed(pid_source) =>
              /\ pid_result.raised = "ValueError"
              /\ pid_result.value = "none"
        /\ (pid_source.type = "str" /\ ~Malformed(pid_source)) =>
              pid_result.raised = "none"

\* the unit test's malformed source: 'project_id.dataset_id'
C12_Witness ==
    /\ pid_source = PidSource("str", <<>>, <<"project_id", "dataset_id">>)
    /\ pid_result = [raised |-> "ValueError", value |-> "none"]

====
